---- MODULE Spec2Model ----
(***************************************************************************)
(* Model of the license metadata cache (src/src/licenseCache.ts) of the    *)
(* code-licenses extension: two keyspaces with time-to-live expiry, size   *)
(* bounded eviction and debounced persistence to the extension's           *)
(* globalState.  Time is in milliseconds.  A timer callback runs at its    *)
(* deadline: the clock does not pass the deadline of a pending timer.      *)
(* With it the analysis loop that fills the cache                          *)
(* (src/src/licenseAnalyzer.ts) and the license compatibility engine       *)
(* (src/src/licenseCompatibilityAnalyzer.ts).                              *)
(***************************************************************************)
EXTENDS Integers, Sequences, FiniteSets, TLC

VARIABLES
    licenseInfoCache,   \* Map key -> {data, fetchedAt, projectType}, in insertion order
    licenseTextCache,   \* object licenseName -> {text, fetchedAt, source}, in insertion order
    context,            \* TRUE once init has stored the extension context
    saveTimeout,        \* handle kept in LicenseCache.saveTimeout (0 is null)
    timers,             \* timers armed in the event loop: [id, due]
    globalState,        \* the two persisted blobs of context.globalState
    now,                \* Date.now()
    config,             \* the codeLicenses.cache.* settings
    lastOp,             \* the call made last, with its return value
    calls,              \* number of steps this run may still take
    hist                \* history: what the stores and flushes so far did

vars == <<licenseInfoCache, licenseTextCache, context, saveTimeout, timers,
          globalState, now, config, lastOp, calls, hist>>

cacheVars == <<licenseInfoCache, licenseTextCache, context, saveTimeout, timers,
               globalState>>

------------------------------------------------------------------------------
(* Bounds of the model *)

MaxNow == 7204000
MaxTimers == 3
MaxCalls == 6
EvictCalls == 5
PersistCalls == 7
AnalyzeCalls == 5
KeyCalls == 4
MaxLicenses == 3
MaxRiskLicenses == 2

(* Program constants *)

DebounceMs == 1000
HourMs == 60 * 60 * 1000

(* Inputs *)

TickSteps == {500, HourMs}
MaxAgeHours == {0, 1}
MaxSizes == {1, 2, 10}

\* (projectType, packageName, version) triples handed to the license-info calls
Triples == { <<"go", "a", "1">>, <<"go", "b", "1">> }
Licenses == {"MIT", "Unknown"}

\* triples whose name or version holds the ":" that delimits the key
KeyTriples == { <<"go", "a:b", "1">>, <<"go", "a", "b:1">>, <<"go", "a", "1">> }

LicenseNames == {"MIT"}
EvictNames == {"MIT", "ISC"}
Texts == {"text one", "text two"}

Null == <<>>
Some(v) == <<v>>

\* license strings handed to the compatibility engine: canonical names, alias
\* spellings, the sentinels, the empty string, names without a row, names
\* with a "-" and names that Object.prototype also knows
LicenseInputs ==
    {"MIT", "mit", "Mit", "Apache-2.0", "APACHE-2", "GPL-2.0", "GPL-3.0", "gpl-3",
     "LGPL-2.1", "ISC", "AGPL-3.0", "AGPL-1.0", "Unknown", "Timeout", "", "WTFPL",
     "GPL", "2.0-Apache-2.0", "constructor", "toString"}

\* the licenses of the dependency lists handed to analyzeProjectCompatibility
MatrixLicenses ==
    {"MIT", "mit", "Apache-2.0", "GPL-2.0", "GPL-3.0", "AGPL-3.0", "ISC", "Unknown",
     "toString"}

\* license names as dependencies carry them, in more than one spelling
LabelLicenses == {"mit", "MIT", "Apache-2.0", "GPL-2.0"}

Lists(S, n) == UNION {[1..k -> S] : k \in 0..n}

\* what a per-ecosystem fetcher hands back: a license, one of the sentinels
\* "Unknown" and "Timeout", or (Null) a rejected promise
FetchOutcomes == {Some("MIT"), Some("Unknown"), Some("Timeout"), Null}

Min(a, b) == IF a < b THEN a ELSE b

------------------------------------------------------------------------------
(* ConfigurationManager.getCacheConfig *)

\* mutant: the flag is taken as it was when the extension started
getCacheConfigFlagNotRead ==
    [enabled |-> TRUE,
     maxAge  |-> config.maxAge * HourMs,
     maxSize |-> config.maxSize]

getCacheConfig ==
    [enabled |-> config.enabled,
     maxAge  |-> config.maxAge * HourMs,
     maxSize |-> config.maxSize]

------------------------------------------------------------------------------
(* Date <-> ISO-8601 text.  The text carries the whole seconds and the     *)
(* three millisecond digits separately.                                    *)

\* mutant: the text is cut at the seconds
toISOStringSeconds(t) == [sec |-> t \div 1000, ms |-> 0]

toISOString(t) == [sec |-> t \div 1000, ms |-> t % 1000]

parseDate(iso) == iso.sec * 1000 + iso.ms

------------------------------------------------------------------------------
(* Map / object primitives; both containers keep insertion order *)

cacheKey(projectType, packageName, version) ==
    projectType \o ":" \o packageName \o ":" \o version

Keys(cache) == {cache[i].key : i \in 1..Len(cache)}

Has(cache, key) == key \in Keys(cache)

Get(cache, key) == cache[CHOOSE i \in 1..Len(cache) : cache[i].key = key]

\* mutant: an entry already present is kept
MapSetIfAbsent(cache, entry) ==
    IF Has(cache, entry.key) THEN cache ELSE Append(cache, entry)

MapSet(cache, entry) ==
    IF Has(cache, entry.key)
    THEN [i \in 1..Len(cache) |->
            IF cache[i].key = entry.key THEN entry ELSE cache[i]]
    ELSE Append(cache, entry)

MapDelete(cache, key) == SelectSeq(cache, LAMBDA e : e.key # key)

------------------------------------------------------------------------------
(* Array.prototype.sort with the comparator a.fetchedAt - b.fetchedAt: a    *)
(* stable ascending sort.                                                  *)

insertSorted(sorted, e) ==
    LET k == Cardinality({i \in 1..Len(sorted) :
                            sorted[i].value.fetchedAt <= e.value.fetchedAt})
    IN SubSeq(sorted, 1, k) \o <<e>> \o SubSeq(sorted, k + 1, Len(sorted))

RECURSIVE sortByFetchedAt(_)
sortByFetchedAt(entries) ==
    IF entries = <<>> THEN <<>>
    ELSE insertSorted(sortByFetchedAt(SubSeq(entries, 1, Len(entries) - 1)),
                      entries[Len(entries)])

(* evictOldestEntries / evictOldestLicenseTextEntries *)

\* mutant: the entries are taken in insertion order, not sorted by fetchedAt
evictFirstInserted(cache, count) ==
    LET victims == {cache[i].key : i \in 1..Min(count, Len(cache))}
    IN SelectSeq(cache, LAMBDA e : e.key \notin victims)

evictOldestEntries(cache, count) ==
    LET entries == sortByFetchedAt(cache)
        victims == {entries[i].key : i \in 1..Min(count, Len(entries))}
    IN SelectSeq(cache, LAMBDA e : e.key \notin victims)

evictOldestLicenseTextEntries(cache, count) ==
    LET entries == sortByFetchedAt(cache)
        victims == {entries[i].key : i \in 1..Min(count, Len(entries))}
    IN SelectSeq(cache, LAMBDA e : e.key \notin victims)

\* mutant: a store at the bound evicts one entry at least
evictCountAtLeastOne(maxSize) == IF maxSize < 10 THEN 1 ELSE maxSize \div 10

\* Math.floor(config.maxSize * 0.1); for a whole maxSize >= 0 the double
\* product rounds down to the integer quotient by ten
evictCount(maxSize) == maxSize \div 10

------------------------------------------------------------------------------
(* Persistence *)

encodeEntry(e) ==
    [key |-> e.key,
     value |-> Some([e.value EXCEPT !.fetchedAt = toISOString(@)])]

decodeEntry(s) ==
    [key |-> s.key,
     value |-> [s.value[1] EXCEPT !.fetchedAt = parseDate(@)]]

encodeCache(cache) == [i \in 1..Len(cache) |-> encodeEntry(cache[i])]

\* one for-loop of loadFromPersistentStorage; reading a field of a null
\* entry throws and leaves the loop
RECURSIVE loadEntries(_, _)
loadEntries(cache, blob) ==
    IF blob = <<>> THEN [cache |-> cache, threw |-> FALSE]
    ELSE IF Head(blob).value = Null THEN [cache |-> cache, threw |-> TRUE]
    ELSE loadEntries(MapSet(cache, decodeEntry(Head(blob))), Tail(blob))

loadFromPersistentStorage(info, text, state) ==
    LET li == loadEntries(info, state.licenseInfoCache)
        lt == loadEntries(text, state.licenseTextCache)
    IN IF li.threw
       THEN [info |-> li.cache, text |-> text, threw |-> TRUE]
       ELSE [info |-> li.cache, text |-> lt.cache, threw |-> lt.threw]

\* mutant: only the license-info blob is written
saveLicenseInfoOnly(ctx, info, text, state) ==
    IF ~ctx THEN state
    ELSE [state EXCEPT !.licenseInfoCache = encodeCache(info)]

\* mutant: the flush adds the entries in memory to the blobs and keeps
\* what the blobs held for keys no longer in memory
saveMergedIntoSnapshot(ctx, info, text, state) ==
    IF ~ctx THEN state
    ELSE [licenseInfoCache |->
              SelectSeq(state.licenseInfoCache, LAMBDA b : ~Has(info, b.key))
              \o encodeCache(info),
          licenseTextCache |->
              SelectSeq(state.licenseTextCache, LAMBDA b : ~Has(text, b.key))
              \o encodeCache(text)]

saveToPersistentStorage(ctx, info, text, state) ==
    IF ~ctx THEN state
    ELSE [licenseInfoCache |-> encodeCache(info),
          licenseTextCache |-> encodeCache(text)]

\* debouncedSave: clearTimeout(saveTimeout), then a new timer
clearTimeout(armed, handle) == {t \in armed : t.id # handle}

freeIds(armed) == {i \in 1..MaxTimers : \A t \in armed : t.id # i}

newHandle(armed) ==
    CHOOSE m \in freeIds(armed) : \A o \in freeIds(armed) : m <= o

\* mutant: the pending timer is not cleared
debouncedSaveStacked(armed, handle) ==
    [timers |-> armed \cup {[id |-> newHandle(armed), due |-> now + DebounceMs]},
     saveTimeout |-> newHandle(armed)]

debouncedSave(armed, handle) ==
    LET kept == clearTimeout(armed, handle)
        id   == newHandle(kept)
    IN [timers |-> kept \cup {[id |-> id, due |-> now + DebounceMs]},
        saveTimeout |-> id]

------------------------------------------------------------------------------
Op(op, key, arg, did, ret, n) ==
    [op |-> op, key |-> key, arg |-> arg, did |-> did, ret |-> ret, n |-> n]

Did(op, key, arg, did, ret, n) ==
    /\ calls > 0
    /\ calls' = calls - 1
    /\ lastOp' = Op(op, key, arg, did, ret, n)

encodeState(info, text) ==
    [licenseInfoCache |-> encodeCache(info), licenseTextCache |-> encodeCache(text)]

\* hist.burst     stores since the save timer last fired
\* hist.storedAt  time of the last store (-1: none in this run)
\* hist.mem       both keyspaces as the last store left them
\* hist.changedAt time of the first change of memory the snapshot lacks (-1: none)
\* hist.cleared   clearAll has run and no store since
\* hist.saved     both keyspaces as last written to globalState by this program
noHistory ==
    [burst |-> 0, storedAt |-> -1, mem |-> Null, changedAt |-> -1,
     cleared |-> FALSE, saved |-> Null]

changedAtAfter(info, text, state) ==
    IF state = encodeState(info, text) THEN -1
    ELSE IF hist.changedAt = -1 /\ <<info, text>> # <<licenseInfoCache, licenseTextCache>>
         THEN now
         ELSE hist.changedAt

afterStore(info, text) ==
    [hist EXCEPT !.burst = @ + 1,
                 !.storedAt = now,
                 !.mem = Some(<<info, text>>),
                 !.changedAt = changedAtAfter(info, text, globalState),
                 !.cleared = FALSE]

afterDelete(info, text) ==
    [hist EXCEPT !.changedAt = changedAtAfter(info, text, globalState)]

\* mutant: an entry expires on reaching maxAge
isExpiredAtMaxAge(entry, cfg) == now - entry.value.fetchedAt >= cfg.maxAge

isExpired(entry, cfg) == now - entry.value.fetchedAt > cfg.maxAge

\* the value getCachedLicenseInfo returns in the current state
lookupInfo(key) ==
    LET cfg == getCacheConfig
    IN IF ~cfg.enabled THEN Null
       ELSE IF ~Has(licenseInfoCache, key) THEN Null
       ELSE IF isExpired(Get(licenseInfoCache, key), cfg) THEN Null
       ELSE Some(Get(licenseInfoCache, key).value.data)

\* the value getCachedLicenseText returns in the current state
lookupText(name) ==
    LET cfg == getCacheConfig
    IN IF ~cfg.enabled THEN Null
       ELSE IF ~Has(licenseTextCache, name) THEN Null
       ELSE IF isExpired(Get(licenseTextCache, name), cfg) THEN Null
       ELSE Some(Get(licenseTextCache, name).value.text)

------------------------------------------------------------------------------
(* Snapshots a previous run of the extension can have left in globalState *)

infoEntry(t, license, at) ==
    [key |-> cacheKey(t[1], t[2], t[3]),
     value |-> [data |-> [name |-> t[2], version |-> t[3], license |-> license],
                fetchedAt |-> at,
                projectType |-> t[1]]]

textEntry(name, text, at) ==
    [key |-> name,
     value |-> [text |-> text, fetchedAt |-> at, source |-> "Multiple sources"]]

nullEntry(key) == [key |-> key, value |-> Null]

BulkNames == <<"p1", "p2", "p3", "p4", "p5", "p6", "p7", "p8", "p9">>

\* nine entries; the first one was stored again later than the others
bulkInfo ==
    [i \in 1..Len(BulkNames) |->
        infoEntry(<<"rust", BulkNames[i], "1">>, "MIT", IF i = 1 THEN 500 ELSE 0)]

bulkText ==
    [i \in 1..Len(BulkNames) |->
        textEntry(BulkNames[i], "text one", IF i = 1 THEN 500 ELSE 0)]

emptySnapshot == [licenseInfoCache |-> <<>>, licenseTextCache |-> <<>>]

smallSnapshot ==
    [licenseInfoCache |-> encodeCache(<<infoEntry(<<"go", "a", "1">>, "MIT", 500)>>),
     licenseTextCache |-> encodeCache(<<textEntry("MIT", "text one", 0)>>)]

bulkInfoSnapshot ==
    [licenseInfoCache |-> encodeCache(bulkInfo),
     licenseTextCache |-> encodeCache(<<textEntry("MIT", "text one", 0)>>)]

bulkTextSnapshot ==
    [licenseInfoCache |-> encodeCache(<<infoEntry(<<"go", "a", "1">>, "MIT", 0)>>),
     licenseTextCache |-> encodeCache(bulkText)]

\* snapshots with an entry that is null
brokenInfoSnapshot ==
    [licenseInfoCache |-> <<encodeEntry(infoEntry(<<"go", "a", "1">>, "MIT", 500)),
                            nullEntry("go:b:1")>>,
     licenseTextCache |-> encodeCache(<<textEntry("MIT", "text one", 0)>>)]

brokenTextSnapshot ==
    [licenseInfoCache |-> encodeCache(<<infoEntry(<<"go", "a", "1">>, "MIT", 500)>>),
     licenseTextCache |-> <<encodeEntry(textEntry("MIT", "text one", 0)),
                            nullEntry("ISC")>>]

------------------------------------------------------------------------------
\* the statics of LicenseCache when the extension host has loaded the module
Start ==
    /\ licenseInfoCache = <<>>
    /\ licenseTextCache = <<>>
    /\ context = FALSE
    /\ saveTimeout = 0
    /\ timers = {}
    /\ now = 1000
    /\ lastOp = Op("new", "", Null, FALSE, Null, 0)
    /\ hist = noHistory

(* LicenseCache.init *)
init ==
    LET l == loadFromPersistentStorage(licenseInfoCache, licenseTextCache, globalState)
    IN /\ context' = TRUE
       /\ licenseInfoCache' = l.info
       /\ licenseTextCache' = l.text
       /\ Did("init", "", Null, l.threw, Null, 0)
       /\ UNCHANGED <<saveTimeout, timers, globalState, now, config, hist>>

(* LicenseCache.getCachedLicenseInfo *)
getCachedLicenseInfo(packageName, version, projectType) ==
    LET cfg == getCacheConfig
        key == cacheKey(projectType, packageName, version)
        stale == /\ cfg.enabled
                 /\ Has(licenseInfoCache, key)
                 /\ isExpired(Get(licenseInfoCache, key), cfg)
    IN /\ licenseInfoCache' =
            IF stale THEN MapDelete(licenseInfoCache, key) ELSE licenseInfoCache
       /\ Did("getCachedLicenseInfo", key, Null, cfg.enabled, lookupInfo(key),
                       IF stale THEN 1 ELSE 0)
       /\ hist' = afterDelete(licenseInfoCache', licenseTextCache)
       /\ UNCHANGED <<licenseTextCache, context, saveTimeout, timers,
                      globalState, now, config>>

(* LicenseCache.cacheLicenseInfo *)
cacheLicenseInfo(packageName, version, projectType, licenseInfo) ==
    LET cfg == getCacheConfig
        key == cacheKey(projectType, packageName, version)
        kept == IF Len(licenseInfoCache) >= cfg.maxSize
                THEN evictOldestEntries(licenseInfoCache, evictCount(cfg.maxSize))
                ELSE licenseInfoCache
        entry == [key |-> key,
                  value |-> [data |-> licenseInfo,
                             fetchedAt |-> now,
                             projectType |-> projectType]]
    IN IF ~cfg.enabled
       THEN /\ Did("cacheLicenseInfo", key, Some(licenseInfo), FALSE, Null, 0)
            /\ UNCHANGED <<licenseInfoCache, licenseTextCache, context, saveTimeout,
                           timers, globalState, now, config, hist>>
       ELSE /\ freeIds(timers) # {}
            /\ licenseInfoCache' = MapSet(kept, entry)
            /\ timers' = debouncedSave(timers, saveTimeout).timers
            /\ saveTimeout' = debouncedSave(timers, saveTimeout).saveTimeout
            /\ Did("cacheLicenseInfo", key, Some(licenseInfo), TRUE, Null,
                   Len(licenseInfoCache) - Len(kept))
            /\ hist' = afterStore(licenseInfoCache', licenseTextCache)
            /\ UNCHANGED <<licenseTextCache, context, globalState, now, config>>

(* LicenseCache.getCachedLicenseText *)
getCachedLicenseText(licenseName) ==
    LET cfg == getCacheConfig
        stale == /\ cfg.enabled
                 /\ Has(licenseTextCache, licenseName)
                 /\ isExpired(Get(licenseTextCache, licenseName), cfg)
    IN /\ licenseTextCache' =
            IF stale THEN MapDelete(licenseTextCache, licenseName) ELSE licenseTextCache
       /\ Did("getCachedLicenseText", licenseName, Null, cfg.enabled,
              lookupText(licenseName), IF stale THEN 1 ELSE 0)
       /\ hist' = afterDelete(licenseInfoCache, licenseTextCache')
       /\ UNCHANGED <<licenseInfoCache, context, saveTimeout, timers,
                      globalState, now, config>>

\* mutant: the bound is compared with the entries of both keyspaces
cacheLicenseTextSharedBound(licenseName, text, source) ==
    LET cfg == getCacheConfig
        kept == IF Len(licenseInfoCache) + Len(licenseTextCache) >= cfg.maxSize
                THEN evictOldestLicenseTextEntries(licenseTextCache,
                                                   evictCount(cfg.maxSize))
                ELSE licenseTextCache
        entry == [key |-> licenseName,
                  value |-> [text |-> text, fetchedAt |-> now, source |-> source]]
    IN IF ~cfg.enabled
       THEN /\ Did("cacheLicenseText", licenseName, Some(text), FALSE, Null, 0)
            /\ UNCHANGED <<licenseInfoCache, licenseTextCache, context, saveTimeout,
                           timers, globalState, now, config, hist>>
       ELSE /\ freeIds(timers) # {}
            /\ licenseTextCache' = MapSet(kept, entry)
            /\ timers' = debouncedSave(timers, saveTimeout).timers
            /\ saveTimeout' = debouncedSave(timers, saveTimeout).saveTimeout
            /\ Did("cacheLicenseText", licenseName, Some(text), TRUE, Null,
                   Len(licenseTextCache) - Len(kept))
            /\ hist' = afterStore(licenseInfoCache, licenseTextCache')
            /\ UNCHANGED <<licenseInfoCache, context, globalState, now, config>>

(* LicenseCache.cacheLicenseText *)
cacheLicenseText(licenseName, text, source) ==
    LET cfg == getCacheConfig
        kept == IF Len(licenseTextCache) >= cfg.maxSize
                THEN evictOldestLicenseTextEntries(licenseTextCache,
                                                   evictCount(cfg.maxSize))
                ELSE licenseTextCache
        entry == [key |-> licenseName,
                  value |-> [text |-> text, fetchedAt |-> now, source |-> source]]
    IN IF ~cfg.enabled
       THEN /\ Did("cacheLicenseText", licenseName, Some(text), FALSE, Null, 0)
            /\ UNCHANGED <<licenseInfoCache, licenseTextCache, context, saveTimeout,
                           timers, globalState, now, config, hist>>
       ELSE /\ freeIds(timers) # {}
            /\ licenseTextCache' = MapSet(kept, entry)
            /\ timers' = debouncedSave(timers, saveTimeout).timers
            /\ saveTimeout' = debouncedSave(timers, saveTimeout).saveTimeout
            /\ Did("cacheLicenseText", licenseName, Some(text), TRUE, Null,
                   Len(licenseTextCache) - Len(kept))
            /\ hist' = afterStore(licenseInfoCache, licenseTextCache')
            /\ UNCHANGED <<licenseInfoCache, context, globalState, now, config>>

\* mutant: clearAll leaves the snapshot to the save timer
clearAllInMemory ==
    /\ licenseInfoCache' = <<>>
    /\ licenseTextCache' = <<>>
    /\ Did("clearAll", "", Null, context, Null,
           Len(licenseInfoCache) + Len(licenseTextCache))
    /\ hist' = [hist EXCEPT !.changedAt = changedAtAfter(<<>>, <<>>, globalState),
                             !.cleared = TRUE]
    /\ UNCHANGED <<context, saveTimeout, timers, globalState, now, config>>

(* LicenseCache.clearAll *)
clearAll ==
    /\ licenseInfoCache' = <<>>
    /\ licenseTextCache' = <<>>
    /\ globalState' = IF context
                      THEN [licenseInfoCache |-> <<>>, licenseTextCache |-> <<>>]
                      ELSE globalState
    /\ Did("clearAll", "", Null, context, Null,
                    Len(licenseInfoCache) + Len(licenseTextCache))
    /\ hist' = [hist EXCEPT !.changedAt = changedAtAfter(<<>>, <<>>, globalState'),
                             !.cleared = TRUE,
                             !.saved = IF context THEN Some(<<<<>>, <<>>>>) ELSE @]
    /\ UNCHANGED <<context, saveTimeout, timers, now, config>>

\* mutant: only the license-info keyspace is swept
clearExpiredInfoOnly ==
    LET cfg == getCacheConfig
        info == SelectSeq(licenseInfoCache, LAMBDA e : ~isExpired(e, cfg))
    IN /\ licenseInfoCache' = info
       /\ Did("clearExpired", "", Null, TRUE, Null,
                       Len(licenseInfoCache) - Len(info))
       /\ hist' = afterDelete(info, licenseTextCache)
       /\ UNCHANGED <<licenseTextCache, context, saveTimeout, timers, globalState,
                      now, config>>

(* LicenseCache.clearExpired *)
clearExpired ==
    LET cfg == getCacheConfig
        info == SelectSeq(licenseInfoCache, LAMBDA e : ~isExpired(e, cfg))
        text == SelectSeq(licenseTextCache, LAMBDA e : ~isExpired(e, cfg))
    IN /\ licenseInfoCache' = info
       /\ licenseTextCache' = text
       /\ Did("clearExpired", "", Null, TRUE, Null,
                       Len(licenseInfoCache) - Len(info)
                       + Len(licenseTextCache) - Len(text))
       /\ hist' = afterDelete(info, text)
       /\ UNCHANGED <<context, saveTimeout, timers, globalState, now, config>>

\* JSON.stringify(entry).length for an entry of licenseInfoCache whose data
\* hold name, version and license: the 102 characters of punctuation, field
\* names and the 24-character ISO date, plus the four strings
jsonLength(entry) ==
    102 + Len(entry.value.data.name) + Len(entry.value.data.version)
        + Len(entry.value.data.license) + Len(entry.value.projectType)

\* the two loops that add up memoryUsage
RECURSIVE infoMemoryUsage(_)
infoMemoryUsage(cache) ==
    IF cache = <<>> THEN 0
    ELSE jsonLength(Head(cache)) * 2 + infoMemoryUsage(Tail(cache))

RECURSIVE textMemoryUsage(_)
textMemoryUsage(cache) ==
    IF cache = <<>> THEN 0
    ELSE Len(Head(cache).value.text) * 2 + textMemoryUsage(Tail(cache))

\* the loops over both keyspaces that keep the least fetchedAt seen so far
RECURSIVE oldestDate(_, _)
oldestDate(entries, held) ==
    IF entries = <<>> THEN held
    ELSE LET at == Head(entries).value.fetchedAt
         IN oldestDate(Tail(entries),
                       IF held = Null \/ at < held[1] THEN Some(at) ELSE held)

\* the same loops keeping the greatest fetchedAt seen so far
RECURSIVE newestDate(_, _)
newestDate(entries, held) ==
    IF entries = <<>> THEN held
    ELSE LET at == Head(entries).value.fetchedAt
         IN newestDate(Tail(entries),
                       IF held = Null \/ at > held[1] THEN Some(at) ELSE held)

\* the record LicenseCache.getStats returns
cacheStats ==
    [licenseInfoEntries |-> Len(licenseInfoCache),
     licenseTextEntries |-> Len(licenseTextCache),
     totalMemoryUsage |->
         infoMemoryUsage(licenseInfoCache) + textMemoryUsage(licenseTextCache),
     oldestEntry |-> oldestDate(licenseInfoCache \o licenseTextCache, Null),
     newestEntry |-> newestDate(licenseInfoCache \o licenseTextCache, Null)]

\* mutant: the statistics are taken after a sweep of the expired entries
getStatsAfterSweep ==
    LET cfg == getCacheConfig
        info == SelectSeq(licenseInfoCache, LAMBDA e : ~isExpired(e, cfg))
        text == SelectSeq(licenseTextCache, LAMBDA e : ~isExpired(e, cfg))
    IN /\ licenseInfoCache' = info
       /\ licenseTextCache' = text
       /\ Did("getStats", "", Null, TRUE,
              Some([cacheStats EXCEPT !.licenseInfoEntries = Len(info),
                                      !.licenseTextEntries = Len(text)]), 0)
       /\ hist' = afterDelete(info, text)
       /\ UNCHANGED <<context, saveTimeout, timers, globalState, now, config>>

(* LicenseCache.getStats *)
getStats ==
    /\ Did("getStats", "", Null, TRUE, Some(cacheStats), 0)
    /\ UNCHANGED <<licenseInfoCache, licenseTextCache, context, saveTimeout,
                   timers, globalState, now, config, hist>>

\* the two arrays LicenseCache.exportCacheData returns
cacheData ==
    [licenseInfo |->
        [i \in 1..Len(licenseInfoCache) |->
            LET e == licenseInfoCache[i]
            IN [key |-> e.key,
                data |-> e.value.data,
                fetchedAt |-> toISOString(e.value.fetchedAt),
                age |-> now - e.value.fetchedAt]],
     licenseText |->
        [i \in 1..Len(licenseTextCache) |->
            LET e == licenseTextCache[i]
            IN [licenseName |-> e.key,
                textLength |-> Len(e.value.text),
                fetchedAt |-> toISOString(e.value.fetchedAt),
                age |-> now - e.value.fetchedAt,
                source |-> e.value.source]]]

(* LicenseCache.exportCacheData *)
exportCacheData ==
    /\ Did("exportCacheData", "", Null, TRUE, Some(cacheData), 0)
    /\ UNCHANGED <<licenseInfoCache, licenseTextCache, context, saveTimeout,
                   timers, globalState, now, config, hist>>

(* the callback debouncedSave hands to setTimeout *)
saveTimerFires ==
    \E t \in timers :
        /\ t.due <= now
        /\ timers' = timers \ {t}
        /\ globalState' = saveToPersistentStorage(context, licenseInfoCache,
                                                  licenseTextCache, globalState)
        /\ Did("saveTimerFires", "", Null, context, Null, hist.burst)
        /\ hist' = [hist EXCEPT
                        !.burst = 0,
                        !.changedAt = changedAtAfter(licenseInfoCache, licenseTextCache,
                                                     globalState'),
                        !.saved = IF context
                                  THEN Some(<<licenseInfoCache, licenseTextCache>>)
                                  ELSE @]
        /\ UNCHANGED <<licenseInfoCache, licenseTextCache, context, saveTimeout,
                       now, config>>

(* the clock *)
tick(d) ==
    /\ now + d <= MaxNow
    /\ \A t \in timers : now + d <= t.due
    /\ now' = now + d
    /\ Did("tick", "", Null, FALSE, Null, d)
    /\ UNCHANGED <<cacheVars, config, hist>>

(* the user edits a codeLicenses.cache.* setting *)
updateConfiguration(setting, value) ==
    /\ config[setting] # value
    /\ config' = [config EXCEPT ![setting] = value]
    /\ Did("updateConfiguration", setting, Null, FALSE, Null, 0)
    /\ UNCHANGED <<cacheVars, now, hist>>

(* the extension host is restarted: deactivate() is empty, the statics of   *)
(* LicenseCache start afresh and pending timers die with the process        *)
restart ==
    /\ context
    /\ licenseInfoCache' = <<>>
    /\ licenseTextCache' = <<>>
    /\ context' = FALSE
    /\ saveTimeout' = 0
    /\ timers' = {}
    /\ Did("restart", "", Null, FALSE, Null, 0)
    /\ hist' = [noHistory EXCEPT !.cleared = hist.cleared, !.saved = hist.saved]
    /\ UNCHANGED <<globalState, now, config>>

(* LicenseAnalyzer.fetchLicenseInfo for one dependency, as analyzeLicenses    *)
(* calls it: the lookup, on a miss the fetcher and the store of what it      *)
(* returned; a rejected fetch leaves fetchLicenseInfo before the store and   *)
(* analyzeLicenses answers {...dependency, license: 'Unknown'}.              *)
(* lastOp.did: the fetcher was invoked; lastOp.n: number of stores made.     *)
fetchLicenseInfo(dependency, projectType, fetched) ==
    LET cfg == getCacheConfig
        key == cacheKey(projectType, dependency.name, dependency.version)
        cached == lookupInfo(key)
        stale == /\ cfg.enabled
                 /\ Has(licenseInfoCache, key)
                 /\ isExpired(Get(licenseInfoCache, key), cfg)
        looked == IF stale THEN MapDelete(licenseInfoCache, key) ELSE licenseInfoCache
        licenseInfo == [dependency EXCEPT !.license = fetched[1]]
        kept == IF Len(looked) >= cfg.maxSize
                THEN evictOldestEntries(looked, evictCount(cfg.maxSize))
                ELSE looked
        entry == [key |-> key,
                  value |-> [data |-> licenseInfo,
                             fetchedAt |-> now,
                             projectType |-> projectType]]
    IN IF cached # Null
       THEN /\ Did("fetchLicenseInfo", key, Null, FALSE, cached, 0)
            /\ UNCHANGED <<cacheVars, now, config, hist>>
       ELSE IF fetched = Null
       THEN /\ licenseInfoCache' = looked
            /\ Did("fetchLicenseInfo", key, fetched, TRUE,
                   Some([dependency EXCEPT !.license = "Unknown"]), 0)
            /\ hist' = afterDelete(looked, licenseTextCache)
            /\ UNCHANGED <<licenseTextCache, context, saveTimeout, timers,
                           globalState, now, config>>
       ELSE IF ~cfg.enabled
       THEN /\ Did("fetchLicenseInfo", key, fetched, TRUE, Some(licenseInfo), 0)
            /\ UNCHANGED <<cacheVars, now, config, hist>>
       ELSE /\ freeIds(timers) # {}
            /\ licenseInfoCache' = MapSet(kept, entry)
            /\ timers' = debouncedSave(timers, saveTimeout).timers
            /\ saveTimeout' = debouncedSave(timers, saveTimeout).saveTimeout
            /\ Did("fetchLicenseInfo", key, fetched, TRUE, Some(licenseInfo), 1)
            /\ hist' = afterStore(licenseInfoCache', licenseTextCache)
            /\ UNCHANGED <<licenseTextCache, context, globalState, now, config>>

------------------------------------------------------------------------------
(* The compatibility engine (src/src/licenseCompatibilityAnalyzer.ts): pure  *)
(* functions over license strings.  Strings are ASCII.                       *)

LowerCase ==
    [c \in {"A", "B", "C", "D", "E", "F", "G", "H", "I", "J", "K", "L", "M",
            "N", "O", "P", "Q", "R", "S", "T", "U", "V", "W", "X", "Y", "Z"} |->
        CASE c = "A" -> "a" [] c = "B" -> "b" [] c = "C" -> "c" [] c = "D" -> "d"
          [] c = "E" -> "e" [] c = "F" -> "f" [] c = "G" -> "g" [] c = "H" -> "h"
          [] c = "I" -> "i" [] c = "J" -> "j" [] c = "K" -> "k" [] c = "L" -> "l"
          [] c = "M" -> "m" [] c = "N" -> "n" [] c = "O" -> "o" [] c = "P" -> "p"
          [] c = "Q" -> "q" [] c = "R" -> "r" [] c = "S" -> "s" [] c = "T" -> "t"
          [] c = "U" -> "u" [] c = "V" -> "v" [] c = "W" -> "w" [] c = "X" -> "x"
          [] c = "Y" -> "y" [] c = "Z" -> "z"]

\* String.prototype.toLowerCase
RECURSIVE toLowerCase(_)
toLowerCase(str) ==
    IF str = "" THEN ""
    ELSE LET c == SubSeq(str, 1, 1)
         IN (IF c \in DOMAIN LowerCase THEN LowerCase[c] ELSE c)
            \o toLowerCase(SubSeq(str, 2, Len(str)))

\* String.prototype.includes
stringIncludes(str, searchString) ==
    \E i \in 1..(Len(str) - Len(searchString) + 1) :
        SubSeq(str, i, i + Len(searchString) - 1) = searchString

\* Array.prototype.includes
arrayIncludes(array, element) == \E i \in 1..Len(array) : array[i] = element

(* A property read obj[key] on an object literal finds the object's own      *)
(* keys and, failing that, what Object.prototype provides under that name:   *)
(* a function or, for __proto__, an object.  A value that is not a string is *)
(* written as the text JavaScript converts it to, which is also the property *)
(* key and the template-string text it yields.                               *)
ObjectPrototype ==
    {"constructor", "__proto__", "toString", "toLocaleString", "valueOf",
     "hasOwnProperty", "isPrototypeOf", "propertyIsEnumerable",
     "__defineGetter__", "__defineSetter__", "__lookupGetter__",
     "__lookupSetter__"}

inherited(name) ==
    IF name = "__proto__" THEN "[object Object]"
    ELSE "function " \o (IF name = "constructor" THEN "Object" ELSE name)
         \o "() { [native code] }"

isString(value) == value \notin {inherited(name) : name \in ObjectPrototype}

\* the outcome of a call that raises a TypeError
TypeError == [threw |-> TRUE]

COMPATIBILITY_MATRIX ==
    ("MIT" :> <<"MIT", "BSD-2-Clause", "BSD-3-Clause", "Apache-2.0", "GPL-2.0",
                "GPL-3.0", "LGPL-2.1", "LGPL-3.0", "MPL-2.0">>)
 @@ ("BSD-2-Clause" :> <<"MIT", "BSD-2-Clause", "BSD-3-Clause", "Apache-2.0",
                         "GPL-2.0", "GPL-3.0", "LGPL-2.1", "LGPL-3.0", "MPL-2.0">>)
 @@ ("BSD-3-Clause" :> <<"MIT", "BSD-2-Clause", "BSD-3-Clause", "Apache-2.0",
                         "GPL-2.0", "GPL-3.0", "LGPL-2.1", "LGPL-3.0", "MPL-2.0">>)
 @@ ("Apache-2.0" :> <<"MIT", "BSD-2-Clause", "BSD-3-Clause", "Apache-2.0",
                       "GPL-3.0", "LGPL-2.1", "LGPL-3.0", "MPL-2.0">>)
 @@ ("GPL-2.0" :> <<"GPL-2.0", "LGPL-2.1">>)
 @@ ("GPL-3.0" :> <<"GPL-2.0", "GPL-3.0", "LGPL-2.1", "LGPL-3.0">>)
 @@ ("LGPL-2.1" :> <<"MIT", "BSD-2-Clause", "BSD-3-Clause", "Apache-2.0",
                     "GPL-2.0", "GPL-3.0", "LGPL-2.1", "LGPL-3.0", "MPL-2.0">>)
 @@ ("LGPL-3.0" :> <<"MIT", "BSD-2-Clause", "BSD-3-Clause", "Apache-2.0",
                     "GPL-3.0", "LGPL-2.1", "LGPL-3.0", "MPL-2.0">>)
 @@ ("MPL-2.0" :> <<"MIT", "BSD-2-Clause", "BSD-3-Clause", "Apache-2.0",
                    "GPL-3.0", "LGPL-2.1", "LGPL-3.0", "MPL-2.0">>)
 @@ ("ISC" :> <<"MIT", "BSD-2-Clause", "BSD-3-Clause", "Apache-2.0", "GPL-2.0",
                "GPL-3.0", "LGPL-2.1", "LGPL-3.0", "MPL-2.0", "ISC">>)
 @@ ("Unlicense" :> <<"MIT", "BSD-2-Clause", "BSD-3-Clause", "Apache-2.0",
                      "GPL-2.0", "GPL-3.0", "LGPL-2.1", "LGPL-3.0", "MPL-2.0",
                      "ISC", "Unlicense">>)
 @@ ("CC0-1.0" :> <<"MIT", "BSD-2-Clause", "BSD-3-Clause", "Apache-2.0",
                    "GPL-2.0", "GPL-3.0", "LGPL-2.1", "LGPL-3.0", "MPL-2.0",
                    "ISC", "Unlicense", "CC0-1.0">>)

INCOMPATIBLE_REASONS ==
    ("GPL-2.0-Apache-2.0" :>
        "GPL 2.0 is incompatible with Apache 2.0 due to patent and termination clause differences")
 @@ ("GPL-2.0-GPL-3.0" :>
        "GPL 2.0 cannot be upgraded to GPL 3.0 without explicit permission")

normalizations ==
    ("mit" :> "MIT")
 @@ ("bsd" :> "BSD-3-Clause")
 @@ ("bsd-2" :> "BSD-2-Clause")
 @@ ("bsd-3" :> "BSD-3-Clause")
 @@ ("apache" :> "Apache-2.0")
 @@ ("apache-2" :> "Apache-2.0")
 @@ ("gpl-2" :> "GPL-2.0")
 @@ ("gpl-3" :> "GPL-3.0")
 @@ ("lgpl-2.1" :> "LGPL-2.1")
 @@ ("lgpl-3" :> "LGPL-3.0")
 @@ ("mpl-2" :> "MPL-2.0")
 @@ ("mozilla" :> "MPL-2.0")
 @@ ("isc" :> "ISC")

(* normalizeLicenseName, for a license that is a string *)
normalizeLicenseName(license) ==
    IF license = "" \/ license = "Unknown" \/ license = "Timeout" THEN license
    ELSE LET lowerLicense == toLowerCase(license)
         IN IF lowerLicense \in DOMAIN normalizations
            THEN normalizations[lowerLicense]
            ELSE IF lowerLicense \in ObjectPrototype
            THEN inherited(lowerLicense)
            ELSE license

\* COMPATIBILITY_MATRIX[license]?.includes(...): the read finds an inherited
\* value, ?. lets it through and the call of its missing includes raises
matrixReadRaises(license) ==
    license \notin DOMAIN COMPATIBILITY_MATRIX /\ license \in ObjectPrototype

\* COMPATIBILITY_MATRIX[license]?.includes(other) || false
rowIncludes(license, other) ==
    /\ license \in DOMAIN COMPATIBILITY_MATRIX
    /\ arrayIncludes(COMPATIBILITY_MATRIX[license], other)

\* mutant: only the row of the first license is consulted
compatibleFirstRowOnly(normalizedLicense1, normalizedLicense2) ==
    rowIncludes(normalizedLicense1, normalizedLicense2)

\* compatible1 && compatible2
compatibleBothRows(normalizedLicense1, normalizedLicense2) ==
    /\ rowIncludes(normalizedLicense1, normalizedLicense2)
    /\ rowIncludes(normalizedLicense2, normalizedLicense1)

GenericReason == "Licenses may have incompatible terms and conditions"

\* INCOMPATIBLE_REASONS[reasonKey1] || INCOMPATIBLE_REASONS[reasonKey2] || ...;
\* both keys hold a "-", which no name of Object.prototype does
incompatibleReason(normalizedLicense1, normalizedLicense2) ==
    LET reasonKey1 == normalizedLicense1 \o "-" \o normalizedLicense2
        reasonKey2 == normalizedLicense2 \o "-" \o normalizedLicense1
    IN IF reasonKey1 \in DOMAIN INCOMPATIBLE_REASONS
       THEN INCOMPATIBLE_REASONS[reasonKey1]
       ELSE IF reasonKey2 \in DOMAIN INCOMPATIBLE_REASONS
       THEN INCOMPATIBLE_REASONS[reasonKey2]
       ELSE GenericReason

LicenseCompatibility(license1, license2, compatible, reason) ==
    [threw |-> FALSE, license1 |-> license1, license2 |-> license2,
     compatible |-> compatible, reason |-> reason]

\* the result for two distinct normalized names whose rows can be read
checkedPair(normalizedLicense1, normalizedLicense2, compatible) ==
    LicenseCompatibility(
        normalizedLicense1, normalizedLicense2, compatible,
        IF ~compatible
        THEN Some(incompatibleReason(normalizedLicense1, normalizedLicense2))
        ELSE Null)

\* checkCompatibility from the two normalized names on
checkNormalized(normalizedLicense1, normalizedLicense2) ==
    IF normalizedLicense1 = normalizedLicense2
    THEN LicenseCompatibility(normalizedLicense1, normalizedLicense2, TRUE,
                              Some("Same license"))
    ELSE IF matrixReadRaises(normalizedLicense1)
            \/ matrixReadRaises(normalizedLicense2)
    THEN TypeError
    ELSE checkedPair(normalizedLicense1, normalizedLicense2,
                     compatibleBothRows(normalizedLicense1, normalizedLicense2))

(* checkCompatibility; reason Null is undefined.  An argument that is not a  *)
(* string has no toLowerCase: normalizeLicenseName raises.                   *)
checkCompatibility(license1, license2) ==
    IF ~isString(license1) \/ ~isString(license2) THEN TypeError
    ELSE checkNormalized(normalizeLicenseName(license1),
                         normalizeLicenseName(license2))

\* mutant: the names are kept as often as they occur
arrayNotDeduplicated(array) == array

\* Array.from(new Set(array)): the distinct elements, by first occurrence
RECURSIVE arrayFromSet(_)
arrayFromSet(array) ==
    IF array = <<>> THEN <<>>
    ELSE LET front == arrayFromSet(SubSeq(array, 1, Len(array) - 1))
             last  == array[Len(array)]
         IN IF arrayIncludes(front, last) THEN front ELSE Append(front, last)

uniqueLicenses(licenses) ==
    arrayFromSet([i \in 1..Len(licenses) |-> normalizeLicenseName(licenses[i])])

\* the (i, j) of the two nested for-loops, in the order they are visited
cellIndexes(n) ==
    [k \in 1..(n * n) |-> <<((k - 1) \div n) + 1, ((k - 1) % n) + 1>>]

\* mutant: a pair is reported from both of its cells
reportsCellBothOrders(i, j, compatibility) == i # j /\ ~compatibility.compatible

\* i < j && !compatibility.compatible
reportsCell(i, j, compatibility) == i < j /\ ~compatibility.compatible

\* the two nested for-loops: the matrix over the distinct normalized names
matrixOver(unique) ==
    [i \in 1..Len(unique) |->
        [j \in 1..Len(unique) |-> checkCompatibility(unique[i], unique[j])]]

\* the cells the loops push to issues, in the order they are visited
issuesOf(matrix) ==
    LET reported == SelectSeq(cellIndexes(Len(matrix)),
                        LAMBDA c : reportsCell(c[1], c[2], matrix[c[1]][c[2]]))
    IN [k \in 1..Len(reported) |-> matrix[reported[k][1]][reported[k][2]]]

\* the object analyzeProjectCompatibility returns
analysisOf(matrix, issues) ==
    IF \E i, j \in 1..Len(matrix) : matrix[i][j].threw THEN TypeError
    ELSE [threw |-> FALSE, compatible |-> Len(issues) = 0,
          issues |-> issues, matrix |-> matrix]

analyzeMatrix(matrix) == analysisOf(matrix, issuesOf(matrix))

(* analyzeProjectCompatibility; a checkCompatibility that raises ends it *)
analyzeProjectCompatibility(licenses) ==
    analyzeMatrix(matrixOver(uniqueLicenses(licenses)))

CommercialIncompatible == <<"GPL-3.0", "AGPL-3.0", "GPL-2.0">>

\* mutant: the AGPL check is left out
getRiskLevelWithoutAgpl(licenses) ==
    LET hasGPL == \E i \in 1..Len(licenses) :
                      stringIncludes(toLowerCase(licenses[i]), "gpl")
        hasCommercialIncompatible ==
            \E i \in 1..Len(licenses) :
                arrayIncludes(CommercialIncompatible, normalizeLicenseName(licenses[i]))
    IN IF hasGPL /\ hasCommercialIncompatible THEN "high"
       ELSE IF hasCommercialIncompatible THEN "medium"
       ELSE "low"

\* mutant: 'gpl' is looked for in the name as written
getRiskLevelGplAsWritten(licenses) ==
    LET hasGPL == \E i \in 1..Len(licenses) : stringIncludes(licenses[i], "gpl")
        hasAGPL == \E i \in 1..Len(licenses) :
                      stringIncludes(toLowerCase(licenses[i]), "agpl")
        hasCommercialIncompatible ==
            \E i \in 1..Len(licenses) :
                arrayIncludes(CommercialIncompatible, normalizeLicenseName(licenses[i]))
    IN IF hasAGPL THEN "high"
       ELSE IF hasGPL /\ hasCommercialIncompatible THEN "high"
       ELSE IF hasCommercialIncompatible THEN "medium"
       ELSE "low"

(* getRiskLevel *)
getRiskLevel(licenses) ==
    LET hasGPL == \E i \in 1..Len(licenses) :
                      stringIncludes(toLowerCase(licenses[i]), "gpl")
        hasAGPL == \E i \in 1..Len(licenses) :
                      stringIncludes(toLowerCase(licenses[i]), "agpl")
        hasCommercialIncompatible ==
            \E i \in 1..Len(licenses) :
                arrayIncludes(CommercialIncompatible, normalizeLicenseName(licenses[i]))
    IN IF hasAGPL THEN "high"
       ELSE IF hasGPL /\ hasCommercialIncompatible THEN "high"
       ELSE IF hasCommercialIncompatible THEN "medium"
       ELSE "low"

ReviewAdvice == "Review incompatible licenses in your dependencies"

GplAdvice ==
    "Consider if GPL licenses are compatible with your project's distribution model"

AgplAdvice ==
    "AGPL requires source code disclosure even for web services - ensure compliance"

ReplaceAdvice == "Consider replacing dependencies with incompatible licenses"

CounselAdvice == "Consult with legal counsel for commercial projects"

\* the advice pushed for an analysis that returned
recommendationsFor(licenses, analysis) ==
    LET hasGPL == \E i \in 1..Len(licenses) :
                      stringIncludes(toLowerCase(licenses[i]), "gpl")
        hasAGPL == \E i \in 1..Len(licenses) :
                      stringIncludes(toLowerCase(licenses[i]), "agpl")
    IN IF analysis.threw THEN TypeError
       ELSE [threw |-> FALSE,
             recommendations |->
                IF analysis.compatible THEN <<>>
                ELSE <<ReviewAdvice>>
                     \o (IF hasGPL THEN <<GplAdvice>> ELSE <<>>)
                     \o (IF hasAGPL THEN <<AgplAdvice>> ELSE <<>>)
                     \o (IF Len(analysis.issues) > 0
                         THEN <<ReplaceAdvice, CounselAdvice>> ELSE <<>>)]

\* mutant: the AGPL advice comes before the GPL advice
getRecommendationsAgplFirst(licenses) ==
    LET analysis == analyzeProjectCompatibility(licenses)
        hasGPL == \E i \in 1..Len(licenses) :
                      stringIncludes(toLowerCase(licenses[i]), "gpl")
        hasAGPL == \E i \in 1..Len(licenses) :
                      stringIncludes(toLowerCase(licenses[i]), "agpl")
    IN IF analysis.threw THEN TypeError
       ELSE [threw |-> FALSE,
             recommendations |->
                IF analysis.compatible THEN <<>>
                ELSE <<ReviewAdvice>>
                     \o (IF hasAGPL THEN <<AgplAdvice>> ELSE <<>>)
                     \o (IF hasGPL THEN <<GplAdvice>> ELSE <<>>)
                     \o (IF Len(analysis.issues) > 0
                         THEN <<ReplaceAdvice, CounselAdvice>> ELSE <<>>)]

(* getRecommendations *)
getRecommendations(licenses) ==
    recommendationsFor(licenses, analyzeProjectCompatibility(licenses))

(* generateCompatibilityMatrixHtml: the header cells and, per matrix row,   *)
(* the row's header cell and its cells; the risk banner and the advice list *)
(* are computed first                                                        *)
generateCompatibilityMatrixHtml(analysis, allLicenses) ==
    LET unique == arrayFromSet(allLicenses)
        recommendations == getRecommendations(allLicenses)
    IN IF recommendations.threw THEN TypeError
       ELSE [threw |-> FALSE,
             riskLevel |-> getRiskLevel(allLicenses),
             header |-> unique,
             rows |-> [i \in 1..Len(analysis.matrix) |->
                        [label |-> unique[i], cells |-> analysis.matrix[i]]]]

(* exportCompatibilityMatrix, format csv: one line per matrix cell *)
exportCompatibilityMatrixCsv(analysis, allLicenses) ==
    LET unique == arrayFromSet(allLicenses)
        n == Len(analysis.matrix)
        at == cellIndexes(n)
    IN [k \in 1..Len(at) |->
          [license1 |-> unique[at[k][1]],
           license2 |-> unique[at[k][2]],
           compatible |-> analysis.matrix[at[k][1]][at[k][2]].compatible]]

(* The calls into the engine: showCompatibilityMatrix and the export of the *)
(* matrix hand it the licenses of all dependencies.  lastOp.arg is the       *)
(* argument, lastOp.ret what the call returned or TypeError.                 *)
callNormalizeLicenseName(license) ==
    /\ Did("normalizeLicenseName", "", Some(license), FALSE,
           Some(normalizeLicenseName(license)), 0)
    /\ UNCHANGED <<cacheVars, now, config, hist>>

callCheckCompatibility(license1, license2) ==
    /\ Did("checkCompatibility", "", Some(<<license1, license2>>), FALSE,
           Some(checkCompatibility(license1, license2)), 0)
    /\ UNCHANGED <<cacheVars, now, config, hist>>

callAnalyzeProjectCompatibility(licenses) ==
    /\ Did("analyzeProjectCompatibility", "", Some(licenses), FALSE,
           Some(analyzeProjectCompatibility(licenses)), 0)
    /\ UNCHANGED <<cacheVars, now, config, hist>>

callGetRiskLevel(licenses) ==
    /\ Did("getRiskLevel", "", Some(licenses), FALSE,
           Some(getRiskLevel(licenses)), 0)
    /\ UNCHANGED <<cacheVars, now, config, hist>>

callGetRecommendations(licenses) ==
    /\ Did("getRecommendations", "", Some(licenses), FALSE,
           Some(getRecommendations(licenses)), 0)
    /\ UNCHANGED <<cacheVars, now, config, hist>>

(* showCompatibilityMatrix, followed by the export of the matrix as csv;     *)
(* lastOp.ret holds the analysis, the rendered table and the csv lines       *)
showCompatibilityMatrix(allLicenses) ==
    \E analysis \in {analyzeProjectCompatibility(allLicenses)} :
       /\ Did("showCompatibilityMatrix", "", Some(allLicenses), FALSE,
              Some(IF analysis.threw THEN TypeError
                   ELSE [threw |-> FALSE,
                         analysis |-> analysis,
                         html |-> generateCompatibilityMatrixHtml(analysis, allLicenses),
                         csv |-> exportCompatibilityMatrixCsv(analysis, allLicenses)]),
              0)
       /\ UNCHANGED <<cacheVars, now, config, hist>>

------------------------------------------------------------------------------
(* Expiry and the cache.enabled flag: both keyspaces, a snapshot of one     *)
(* entry each, the settings cache.enabled and cache.maxAge edited at will.  *)

Init ==
    /\ Start
    /\ globalState \in {emptySnapshot, smallSnapshot}
    /\ config \in [enabled : {TRUE}, maxAge : MaxAgeHours, maxSize : {2}]
    /\ calls = MaxCalls

\* activate() calls LicenseCache.init once, before it registers any command
\* or provider: every other call of a run comes after init
Next ==
    \/ ~context /\ init
    \/ context /\ \E t \in Triples : getCachedLicenseInfo(t[2], t[3], t[1])
    \/ context /\ \E t \in Triples, l \in Licenses :
          cacheLicenseInfo(t[2], t[3], t[1],
                           [name |-> t[2], version |-> t[3], license |-> l])
    \/ context /\ \E n \in LicenseNames : getCachedLicenseText(n)
    \/ context /\ \E n \in LicenseNames, x \in Texts :
          cacheLicenseText(n, x, "Multiple sources")
    \/ context /\ clearExpired
    \/ saveTimerFires
    \/ \E d \in TickSteps : tick(d)
    \/ \E b \in BOOLEAN : updateConfiguration("enabled", b)
    \/ \E h \in MaxAgeHours : updateConfiguration("maxAge", h)

Spec == Init /\ [][Next]_vars

------------------------------------------------------------------------------
(* Eviction: a snapshot that fills one keyspace to nine entries, and the    *)
(* setting cache.maxSize edited at will.                                    *)

InitEvict ==
    /\ Start
    /\ globalState \in {emptySnapshot, bulkInfoSnapshot, bulkTextSnapshot}
    /\ config \in [enabled : {TRUE}, maxAge : {1}, maxSize : MaxSizes]
    /\ calls = EvictCalls

NextEvict ==
    \/ ~context /\ init
    \/ context /\ getCachedLicenseInfo("p2", "1", "rust")
    \/ context /\ \E t \in Triples, l \in Licenses :
          cacheLicenseInfo(t[2], t[3], t[1],
                           [name |-> t[2], version |-> t[3], license |-> l])
    \/ context /\ getCachedLicenseText("p2")
    \/ context /\ \E n \in EvictNames : cacheLicenseText(n, "text one", "Multiple sources")
    \/ context /\ clearExpired
    \/ context /\ clearAll
    \/ saveTimerFires
    \/ \E d \in {DebounceMs, HourMs} : tick(d)
    \/ \E m \in MaxSizes : updateConfiguration("maxSize", m)

SpecEvict == InitEvict /\ [][NextEvict]_vars

------------------------------------------------------------------------------
(* Persistence: snapshots with and without a null entry, flushes, clearAll  *)
(* and restarts of the extension host.                                      *)

InitPersist ==
    /\ Start
    /\ globalState \in {emptySnapshot, smallSnapshot, brokenInfoSnapshot,
                        brokenTextSnapshot}
    /\ config \in [enabled : {TRUE}, maxAge : MaxAgeHours, maxSize : {10}]
    /\ calls = PersistCalls

NextPersist ==
    \/ ~context /\ init
    \/ context /\ getCachedLicenseInfo("a", "1", "go")
    \/ context /\ \E l \in Licenses :
          cacheLicenseInfo("a", "1", "go", [name |-> "a", version |-> "1", license |-> l])
    \/ context /\ getCachedLicenseText("MIT")
    \/ context /\ cacheLicenseText("MIT", "text two", "Multiple sources")
    \/ context /\ clearExpired
    \/ context /\ clearAll
    \/ saveTimerFires
    \/ \E d \in {500, DebounceMs} : tick(d)
    \/ \E b \in BOOLEAN : updateConfiguration("enabled", b)
    \/ restart

SpecPersist == InitPersist /\ [][NextPersist]_vars

------------------------------------------------------------------------------
(* Analysis: the orchestrator's lookup / fetch / store loop over the         *)
(* dependencies of a project, fetches that return and fetches that reject.   *)

InitAnalyze ==
    /\ Start
    /\ globalState \in {emptySnapshot, smallSnapshot}
    /\ config \in [enabled : {TRUE}, maxAge : MaxAgeHours, maxSize : {2}]
    /\ calls = AnalyzeCalls

NextAnalyze ==
    \/ ~context /\ init
    \/ context /\ \E t \in Triples, f \in FetchOutcomes :
          fetchLicenseInfo([name |-> t[2], version |-> t[3], license |-> ""], t[1], f)
    \/ context /\ clearExpired
    \/ saveTimerFires
    \/ \E d \in TickSteps : tick(d)
    \/ \E b \in BOOLEAN : updateConfiguration("enabled", b)

SpecAnalyze == InitAnalyze /\ [][NextAnalyze]_vars

------------------------------------------------------------------------------
(* The compatibility engine keeps no state: a behaviour is one call of one   *)
(* of its functions, on any of the inputs.                                   *)

InitCompat ==
    /\ Start
    /\ globalState = emptySnapshot
    /\ config = [enabled |-> TRUE, maxAge |-> 1, maxSize |-> 10]
    /\ calls = MaxCalls

NextCompat ==
    \/ lastOp.op = "new" /\ \E l \in LicenseInputs : callNormalizeLicenseName(l)
    \/ lastOp.op = "new" /\ \E l1, l2 \in LicenseInputs : callCheckCompatibility(l1, l2)
    \/ lastOp.op = "new" /\ \E ls \in Lists(MatrixLicenses, MaxLicenses) :
          callAnalyzeProjectCompatibility(ls)
    \/ lastOp.op = "new" /\ \E ls \in Lists(LicenseInputs, MaxRiskLicenses) :
          callGetRiskLevel(ls)
    \/ lastOp.op = "new" /\ \E ls \in Lists(MatrixLicenses, MaxLicenses) :
          callGetRecommendations(ls)
    \/ lastOp.op = "new" /\ \E ls \in Lists(LabelLicenses, MaxLicenses) :
          showCompatibilityMatrix(ls)

SpecCompat == InitCompat /\ [][NextCompat]_vars

------------------------------------------------------------------------------
(* Keys: stores and lookups under triples whose names and versions hold the *)
(* delimiter of the key, and the inspection calls on what they leave.       *)

InitKeys ==
    /\ Start
    /\ globalState \in {emptySnapshot, smallSnapshot}
    /\ config \in [enabled : {TRUE}, maxAge : MaxAgeHours, maxSize : {10}]
    /\ calls = KeyCalls

NextKeys ==
    \/ ~context /\ init
    \/ context /\ \E t \in KeyTriples : getCachedLicenseInfo(t[2], t[3], t[1])
    \/ context /\ \E t \in KeyTriples, l \in Licenses :
          cacheLicenseInfo(t[2], t[3], t[1],
                           [name |-> t[2], version |-> t[3], license |-> l])
    \/ context /\ getStats
    \/ context /\ exportCacheData
    \/ saveTimerFires
    \/ \E d \in {DebounceMs} : tick(d)

SpecKeys == InitKeys /\ [][NextKeys]_vars

------------------------------------------------------------------------------
(* Properties *)

Age(e) == now - e.value.fetchedAt

isStore == lastOp.op \in {"cacheLicenseInfo", "cacheLicenseText"} /\ lastOp.did

lookupStep(op, cache, cacheAfter, field, needsEnabled) ==
    (/\ lastOp'.op = op
     /\ Has(cache, lastOp'.key)
     /\ needsEnabled => config.enabled)
        => LET e == Get(cache, lastOp'.key)
           IN IF Age(e) > getCacheConfig.maxAge
              THEN /\ lastOp'.ret = Null
                   /\ ~Has(cacheAfter, lastOp'.key)
                   /\ Len(cacheAfter) = Len(cache) - 1
              ELSE /\ lastOp'.ret = Some(e.value[field])
                   /\ cacheAfter = cache

\* C2 as stated: a lookup of an entry older than maxAge returns absent and
\* deletes the entry (the count drops by one), and an entry of age maxAge or
\* less is returned, in every state.
C2_ExpiryInEveryState ==
    [][/\ lookupStep("getCachedLicenseInfo", licenseInfoCache, licenseInfoCache',
                     "data", FALSE)
       /\ lookupStep("getCachedLicenseText", licenseTextCache, licenseTextCache',
                     "text", FALSE)]_vars

\* C2 amended: while cache.enabled is true, a lookup of an entry older than
\* maxAge returns absent and deletes the entry (the count drops by one), and
\* an entry of age maxAge or less is returned and kept.
C2_ExpiryWhileEnabled ==
    [][/\ lookupStep("getCachedLicenseInfo", licenseInfoCache, licenseInfoCache',
                     "data", TRUE)
       /\ lookupStep("getCachedLicenseText", licenseTextCache, licenseTextCache',
                     "text", TRUE)]_vars

\* a lookup has just deleted a stale entry
C2_StaleEntryDeleted ==
    /\ lastOp.op \in {"getCachedLicenseInfo", "getCachedLicenseText"}
    /\ lastOp.did
    /\ lastOp.n = 1
    /\ lastOp.ret = Null

\* C3: once a store has completed, its keyspace holds at most maxSize entries.
C3_SizeBoundAfterStore ==
    /\ (lastOp.op = "cacheLicenseInfo" /\ lastOp.did)
          => Len(licenseInfoCache) <= config.maxSize
    /\ (lastOp.op = "cacheLicenseText" /\ lastOp.did)
          => Len(licenseTextCache) <= config.maxSize

RECURSIVE dropIndexes(_, _, _)
dropIndexes(seq, R, i) ==
    IF i > Len(seq) THEN <<>>
    ELSE (IF i \in R THEN <<>> ELSE <<seq[i]>>) \o dropIndexes(seq, R, i + 1)

storeStep(op, old, new) ==
    (lastOp'.op = op /\ lastOp'.did)
        => LET count == Len(old)
               maxSize == config.maxSize
               E == IF count >= maxSize THEN Min(maxSize \div 10, count) ELSE 0
               k == lastOp'.key
           IN /\ lastOp'.n = E
              /\ Has(new, k)
              /\ Get(new, k).value.fetchedAt = now
              /\ \E R \in SUBSET (1..count) :
                    /\ Cardinality(R) = E
                    /\ \A i \in R, j \in (1..count) \ R :
                          old[i].value.fetchedAt <= old[j].value.fetchedAt
                    /\ MapDelete(new, k) = MapDelete(dropIndexes(old, R, 1), k)

\* C4: a store that finds count >= maxSize entries removes exactly
\* min(floor(maxSize / 10), count) of them, none of the survivors being older
\* than a removed entry, and then inserts; a store that finds fewer removes
\* nothing.
C4_EvictsOldestTenth ==
    [][/\ storeStep("cacheLicenseInfo", licenseInfoCache, licenseInfoCache')
       /\ storeStep("cacheLicenseText", licenseTextCache, licenseTextCache')]_vars

\* a store has evicted the oldest entry, which was not the first one inserted
C4_OldestEvicted ==
    /\ isStore
    /\ lastOp.n = 1
    /\ \/ lastOp.op = "cacheLicenseInfo" /\ licenseInfoCache[1].value.fetchedAt = 500
       \/ lastOp.op = "cacheLicenseText" /\ licenseTextCache[1].value.fetchedAt = 500

\* C5: while cache.enabled is false, lookups return absent and lookups and
\* stores change neither keyspace, nor the timer, nor the snapshot.
C5_DisabledIsInert ==
    [][(/\ ~config.enabled
        /\ lastOp'.op \in {"getCachedLicenseInfo", "getCachedLicenseText",
                           "cacheLicenseInfo", "cacheLicenseText"})
          => /\ lastOp'.ret = Null
             /\ UNCHANGED cacheVars]_vars

\* a lookup made while disabled missed an entry that is present and fresh
C5_FreshEntryHidden ==
    /\ ~config.enabled
    /\ lastOp.op = "getCachedLicenseInfo"
    /\ Has(licenseInfoCache, lastOp.key)
    /\ Age(Get(licenseInfoCache, lastOp.key)) = 0
    /\ lastOp.ret = Null

inSync == globalState = encodeState(licenseInfoCache, licenseTextCache)

\* C6 as stated: at most one save timer is pending; the stores of a burst
\* produce one flush, one debounce window after the last of them, and the
\* flush writes the state as that last store left it.
C6_FlushHoldsStateOfLastStore ==
    /\ Cardinality(timers) <= 1
    /\ lastOp.op = "saveTimerFires"
          => /\ timers = {}
             /\ lastOp.n >= 1
             /\ now = hist.storedAt + DebounceMs
             /\ globalState = encodeState(hist.mem[1][1], hist.mem[1][2])

\* C6 amended: at most one save timer is pending; the stores of a burst made
\* while caching is enabled produce one flush, one debounce window after the
\* last of them, and the flush writes the state as it is when the timer fires.
C6_OneFlushPerBurst ==
    /\ Cardinality(timers) <= 1
    /\ lastOp.op = "saveTimerFires"
          => /\ timers = {}
             /\ lastOp.n >= 1
             /\ now = hist.storedAt + DebounceMs
             /\ globalState = encodeState(licenseInfoCache, licenseTextCache)

\* the timer has fired once for two or more stores
C6_BurstFlushedOnce ==
    /\ lastOp.op = "saveTimerFires"
    /\ lastOp.n >= 2
    /\ licenseInfoCache # <<>>
    /\ inSync

C8_ClearAllStaysCleared ==
    /\ lastOp.op = "clearAll"
          => /\ licenseInfoCache = <<>>
             /\ licenseTextCache = <<>>
             /\ globalState = emptySnapshot
    /\ hist.cleared => globalState = emptySnapshot

\* a timer scheduled before clearAll has fired after it
C8_TimerFiredAfterClearAll ==
    /\ hist.cleared
    /\ lastOp.op = "saveTimerFires"
    /\ lastOp.n >= 1

\* C9: after a flush has written state S, init in a fresh process leaves
\* the in-memory state equal to S: keys, data and fetchedAt.
C9_RoundTrip ==
    (lastOp.op = "init" /\ hist.saved # Null)
        => /\ ~lastOp.did
           /\ <<licenseInfoCache, licenseTextCache>> = hist.saved[1]

\* init has loaded entries a flush of an earlier run wrote
C9_LoadedWhatWasFlushed ==
    /\ lastOp.op = "init"
    /\ hist.saved # Null
    /\ licenseInfoCache # <<>>
    /\ licenseTextCache # <<>>
    /\ \E i \in 1..Len(licenseInfoCache) : licenseInfoCache[i].value.fetchedAt % 1000 # 0

\* C10: when decoding fails during init, both keyspaces are empty afterwards.
C10_EmptyAfterFailedLoad ==
    (lastOp.op = "init" /\ lastOp.did)
        => /\ licenseInfoCache = <<>>
           /\ licenseTextCache = <<>>

\* C11: with caching enabled, an analysis of a dependency that directly
\* follows an analysis of the same (projectType, name, version), with no clock
\* advance between the two, does not invoke the fetcher, whatever the first
\* fetch did.
C11_SecondAnalysisDoesNotFetch ==
    [][(/\ lastOp.op = "fetchLicenseInfo"
        /\ lastOp'.op = "fetchLicenseInfo"
        /\ lastOp'.key = lastOp.key
        /\ getCacheConfig.enabled)
       => ~lastOp'.did]_vars

\* C12: when the extension host shuts down, every entry the in-memory caches
\* hold is in the persisted blobs the next init loads.
C12_ShutdownFlushes ==
    [][lastOp'.op = "restart"
       => /\ \A i \in 1..Len(licenseInfoCache) :
               \E j \in 1..Len(globalState'.licenseInfoCache) :
                   globalState'.licenseInfoCache[j] = encodeEntry(licenseInfoCache[i])
          /\ \A i \in 1..Len(licenseTextCache) :
               \E j \in 1..Len(globalState'.licenseTextCache) :
                   globalState'.licenseTextCache[j] = encodeEntry(licenseTextCache[i])]_vars

called(op) == lastOp.op = op

arg == lastOp.arg[1]

ret == lastOp.ret[1]

\* C13: checkCompatibility(A, B) returns a value for all license strings A and
\* B, with compatible true exactly when the normalized names are equal or each
\* is listed in the other's row of the knowledge base.
C13_CompatibleIffBothListedAndNeverRaises ==
    called("checkCompatibility")
        => /\ ~ret.threw
           /\ LET a == normalizeLicenseName(arg[1])
                  b == normalizeLicenseName(arg[2])
              IN ret.compatible <=>
                    \/ a = b
                    \/ /\ a \in DOMAIN COMPATIBILITY_MATRIX
                       /\ b \in DOMAIN COMPATIBILITY_MATRIX
                       /\ arrayIncludes(COMPATIBILITY_MATRIX[a], b)
                       /\ arrayIncludes(COMPATIBILITY_MATRIX[b], a)

PatentReason ==
    "GPL 2.0 is incompatible with Apache 2.0 due to patent and termination clause differences"

UpgradeReason == "GPL 2.0 cannot be upgraded to GPL 3.0 without explicit permission"

\* the reason curated for an unordered pair of normalized names
curatedReason(a, b) ==
    IF {a, b} = {"GPL-2.0", "Apache-2.0"} THEN PatentReason
    ELSE IF {a, b} = {"GPL-2.0", "GPL-3.0"} THEN UpgradeReason
    ELSE GenericReason

\* C14: the reason checkCompatibility returns is 'Same license' for equal
\* normalized names, for an incompatible pair the reason curated for that pair
\* in either order and else the generic reason, and none for a compatible pair
\* of different licenses.
C14_ReasonOfThePair ==
    (called("checkCompatibility") /\ ~ret.threw)
        => LET a == normalizeLicenseName(arg[1])
               b == normalizeLicenseName(arg[2])
           IN ret.reason = IF a = b THEN Some("Same license")
                           ELSE IF ret.compatible THEN Null
                           ELSE Some(curatedReason(a, b))

\* C15: of two compared licenses with a row in COMPATIBILITY_MATRIX, each is
\* listed in the other's row or neither is.
C15_TableSymmetric ==
    called("checkCompatibility")
        => LET a == normalizeLicenseName(arg[1])
               b == normalizeLicenseName(arg[2])
           IN (a \in DOMAIN COMPATIBILITY_MATRIX /\ b \in DOMAIN COMPATIBILITY_MATRIX)
                => (arrayIncludes(COMPATIBILITY_MATRIX[a], b)
                        <=> arrayIncludes(COMPATIBILITY_MATRIX[b], a))

returned(op) == called(op) /\ ~ret.threw

\* C16: the matrix analyzeProjectCompatibility returns is symmetric in
\* compatible and reason, with license1 and license2 swapped, and compatible
\* on the diagonal.
C16_MatrixSymmetric ==
    returned("analyzeProjectCompatibility")
        => LET m == ret.matrix
           IN \A i, j \in 1..Len(m) :
                /\ m[i][j].compatible = m[j][i].compatible
                /\ m[i][j].reason = m[j][i].reason
                /\ m[i][j].license1 = m[j][i].license2
                /\ m[i][j].license2 = m[j][i].license1
                /\ m[i][i].compatible

C16_IncompatiblePairInMatrix ==
    /\ returned("analyzeProjectCompatibility")
    /\ \E i, j \in 1..Len(ret.matrix) :
          /\ i < j
          /\ ~ret.matrix[i][j].compatible
          /\ ret.matrix[i][j].reason = Some(PatentReason)
    /\ \E i, j \in 1..Len(ret.matrix) : i < j /\ ret.matrix[i][j].compatible

\* the normalized names of a list, and the place a name first takes in it
normalizedNames(ls) == {normalizeLicenseName(ls[i]) : i \in 1..Len(ls)}

firstAt(ls, name) ==
    CHOOSE i \in 1..Len(ls) :
        /\ normalizeLicenseName(ls[i]) = name
        /\ \A k \in 1..(i - 1) : normalizeLicenseName(ls[k]) # name

\* C17: the matrix is n by n for the n distinct normalized names of the input,
\* in the order of their first occurrence, none twice, and cell (i, j) is
\* checkCompatibility of the i-th and the j-th name.
C17_MatrixOverDistinctNames ==
    returned("analyzeProjectCompatibility")
        => LET m == ret.matrix
               n == Cardinality(normalizedNames(arg))
               label(i) == m[i][i].license1
           IN /\ Len(m) = n
              /\ \A i \in 1..n : Len(m[i]) = n
              /\ {label(i) : i \in 1..n} = normalizedNames(arg)
              /\ \A i, j \in 1..n : i < j => firstAt(arg, label(i)) < firstAt(arg, label(j))
              /\ \A i, j \in 1..n : m[i][j] = checkCompatibility(label(i), label(j))

C17_DuplicateCollapsed ==
    /\ returned("analyzeProjectCompatibility")
    /\ arg = <<"MIT", "MIT", "Apache-2.0">>
    /\ Len(ret.matrix) = 2
    /\ ret.matrix[1][2].license1 = "MIT"
    /\ ret.matrix[1][2].license2 = "Apache-2.0"
    /\ ret.issues = <<>>

\* C18: issues holds, once each and as the cell above the diagonal, the pairs
\* of distinct normalized names that are incompatible, and nothing else; the
\* compatible flag says that issues is empty, which is when no cell off the
\* diagonal is incompatible.
C18_IssuesOncePerPair ==
    returned("analyzeProjectCompatibility")
        => LET m == ret.matrix
               n == Len(m)
               issues == ret.issues
               above == {c \in (1..n) \X (1..n) : c[1] < c[2] /\ ~m[c[1]][c[2]].compatible}
           IN /\ Len(issues) = Cardinality(above)
              /\ \A c \in above : \E k \in 1..Len(issues) : issues[k] = m[c[1]][c[2]]
              /\ \A k \in 1..Len(issues) : \E c \in above : issues[k] = m[c[1]][c[2]]
              /\ \A k, l \in 1..Len(issues) :
                    k # l => {issues[k].license1, issues[k].license2}
                             # {issues[l].license1, issues[l].license2}
              /\ ret.compatible <=> issues = <<>>
              /\ ret.compatible <=>
                    \A i, j \in 1..n : i # j => m[i][j].compatible

C18_TwoIssuesReported ==
    /\ returned("analyzeProjectCompatibility")
    /\ Len(ret.issues) = 2
    /\ ~ret.compatible

\* C19: getRiskLevel is 'high' when a license contains 'agpl'; else 'high'
\* when one contains 'gpl' and one normalizes to GPL-3.0, AGPL-3.0 or GPL-2.0;
\* else 'medium' when one normalizes into that set; else 'low'.
C19_RiskLevelOrder ==
    called("getRiskLevel")
        => LET lower == [i \in 1..Len(arg) |-> toLowerCase(arg[i])]
               risky == {i \in 1..Len(arg) :
                            normalizeLicenseName(arg[i])
                                \in {"GPL-3.0", "AGPL-3.0", "GPL-2.0"}}
               agpl == {i \in 1..Len(arg) : stringIncludes(lower[i], "agpl")}
               gpl == {i \in 1..Len(arg) : stringIncludes(lower[i], "gpl")}
           IN ret = CASE agpl # {} -> "high"
                      [] agpl = {} /\ gpl # {} /\ risky # {} -> "high"
                      [] agpl = {} /\ ~(gpl # {} /\ risky # {}) /\ risky # {} -> "medium"
                      [] OTHER -> "low"

C19_AgplAloneIsHigh ==
    /\ called("getRiskLevel")
    /\ arg = <<"AGPL-1.0", "MIT">>
    /\ ret = "high"

\* C20: normalizeLicenseName maps an alias key in any letter case to its
\* canonical name and returns every other input unchanged.
C20_AliasOrUnchanged ==
    called("normalizeLicenseName")
        => ret = IF toLowerCase(arg) \in DOMAIN normalizations
                 THEN normalizations[toLowerCase(arg)]
                 ELSE arg

\* C21: getRecommendations returns the empty list exactly when
\* analyzeProjectCompatibility reports the list compatible, and otherwise the
\* review advice, the GPL advice if a license contains 'gpl', the AGPL advice
\* if one contains 'agpl', the replace advice and the counsel advice, in this
\* order.
C21_RecommendationsInOrder ==
    returned("getRecommendations")
        => LET analysis == analyzeProjectCompatibility(arg)
               has(text) == \E i \in 1..Len(arg) :
                                stringIncludes(toLowerCase(arg[i]), text)
               r == ret.recommendations
               n == Len(r)
           IN /\ (r = <<>>) <=> analysis.compatible
              /\ r # <<>> =>
                    /\ r[1] = ReviewAdvice
                    /\ r[n - 1] = ReplaceAdvice
                    /\ r[n] = CounselAdvice
                    /\ n = 3 + (IF has("gpl") THEN 1 ELSE 0)
                             + (IF has("agpl") THEN 1 ELSE 0)
                    /\ has("gpl") => r[2] = GplAdvice
                    /\ has("agpl") => r[n - 2] = AgplAdvice

C21_AllFiveAdvices ==
    /\ returned("getRecommendations")
    /\ ret.recommendations =
          <<ReviewAdvice, GplAdvice, AgplAdvice, ReplaceAdvice, CounselAdvice>>

\* C30: the rendered table and the csv export carry one label per matrix row,
\* and the label of row i and of column j is the license cell (i, j) was
\* computed for.
C30_LabelsMatchCells ==
    returned("showCompatibilityMatrix")
        => LET m == ret.analysis.matrix
               n == Len(m)
           IN /\ Len(ret.html.header) = n
              /\ \A i, j \in 1..n :
                    /\ ret.html.rows[i].label = m[i][j].license1
                    /\ ret.html.header[j] = m[i][j].license2
              /\ \A k \in 1..Len(ret.csv) :
                    LET c == cellIndexes(n)[k]
                    IN /\ ret.csv[k].license1 = m[c[1]][c[2]].license1
                       /\ ret.csv[k].license2 = m[c[1]][c[2]].license2

C22_TriplesAddressDistinctRecords ==
    [][/\ (/\ lastOp'.op = "cacheLicenseInfo"
           /\ lastOp'.did
           /\ Has(licenseInfoCache, lastOp'.key))
          => LET replaced == Get(licenseInfoCache, lastOp'.key).value.data
             IN /\ replaced.name = lastOp'.arg[1].name
                /\ replaced.version = lastOp'.arg[1].version
       /\ \A t \in KeyTriples :
            (getCachedLicenseInfo(t[2], t[3], t[1]) /\ lastOp'.ret # Null)
                => /\ lastOp'.ret[1].name = t[2]
                   /\ lastOp'.ret[1].version = t[3]]_vars

\* the entries of a keyspace whose age is at most maxAge, in their order
notOlderThanMaxAge(cache) ==
    SelectSeq(cache, LAMBDA e : Age(e) <= getCacheConfig.maxAge)

\* C23: clearExpired removes from both keyspaces exactly the entries whose
\* age exceeds maxAge and leaves every other entry unchanged; it neither
\* writes the snapshot nor schedules or cancels a flush timer.
C23_ClearExpiredSweepsOnlyMemory ==
    [][lastOp'.op = "clearExpired"
        => /\ licenseInfoCache' = notOlderThanMaxAge(licenseInfoCache)
           /\ licenseTextCache' = notOlderThanMaxAge(licenseTextCache)
           /\ UNCHANGED <<globalState, timers, saveTimeout>>]_vars

\* clearExpired has removed an entry and kept another in each keyspace while a
\* flush timer was pending
C23_SweptAndKept ==
    /\ lastOp.op = "clearExpired"
    /\ lastOp.n >= 1
    /\ licenseInfoCache # <<>>
    /\ licenseTextCache # <<>>
    /\ timers # {}

\* C24: getStats and exportCacheData leave both keyspaces, the flush timer
\* and the snapshot unchanged, also in a state that holds expired entries,
\* and getStats reports the number of entries of each keyspace, expired ones
\* included.
C24_InspectionReadsOnly ==
    [][/\ lastOp'.op \in {"getStats", "exportCacheData"}
            => UNCHANGED <<licenseInfoCache, licenseTextCache, timers,
                           saveTimeout, globalState>>
       /\ lastOp'.op = "getStats"
            => /\ lastOp'.ret[1].licenseInfoEntries
                    = Cardinality(Keys(licenseInfoCache))
               /\ lastOp'.ret[1].licenseTextEntries
                    = Cardinality(Keys(licenseTextCache))]_vars

\* getStats has counted a keyspace that holds an entry older than maxAge,
\* with a flush timer pending
C24_StatsCountExpiredEntry ==
    /\ lastOp.op = "getStats"
    /\ lastOp.ret[1].licenseInfoEntries >= 1
    /\ \E i \in 1..Len(licenseInfoCache) :
          Age(licenseInfoCache[i]) > getCacheConfig.maxAge
    /\ timers # {}

\* a blob of the snapshot holds the entries of a keyspace, all of them and
\* nothing else, each with its key, its value and its date
holdsExactly(blob, cache) ==
    /\ Len(blob) = Len(cache)
    /\ \A i \in 1..Len(cache) :
          /\ blob[i].key = cache[i].key
          /\ blob[i].value # Null
          /\ parseDate(blob[i].value[1].fetchedAt) = cache[i].value.fetchedAt
          /\ [blob[i].value[1] EXCEPT !.fetchedAt = 0]
                = [cache[i].value EXCEPT !.fetchedAt = 0]

\* C25: when the save timer fires after init, the snapshot it writes holds
\* the complete content of both keyspaces as they are when it fires, and the
\* firing changes no in-memory entry.
C25_FlushWritesStateAtFiring ==
    [][(lastOp'.op = "saveTimerFires" /\ context)
        => /\ holdsExactly(globalState'.licenseInfoCache, licenseInfoCache)
           /\ holdsExactly(globalState'.licenseTextCache, licenseTextCache)
           /\ UNCHANGED <<licenseInfoCache, licenseTextCache>>]_vars

\* the timer has fired on a non-empty state that differs from the state the
\* last store left, and from which an entry of the old snapshot is gone
C25_FlushedLaterState ==
    /\ lastOp.op = "saveTimerFires"
    /\ lastOp.did
    /\ hist.mem # Null
    /\ hist.mem[1] # <<licenseInfoCache, licenseTextCache>>
    /\ Len(licenseInfoCache) + Len(licenseTextCache) >= 1
    /\ inSync

\* C26: once clearAll has returned, no save timer scheduled by an earlier
\* store is pending.
C26_ClearAllCancelsTimer ==
    lastOp.op = "clearAll" => timers = {}

\* the eviction a store makes is the one its own keyspace's count calls for
ownCountEvicts(op, cache) ==
    (lastOp'.op = op /\ lastOp'.did)
        => lastOp'.n = IF Len(cache) >= config.maxSize
                       THEN Min(config.maxSize \div 10, Len(cache))
                       ELSE 0

\* C27: a store or a lookup of license info, with its eviction or stale
\* delete, leaves every license-text entry as it was, a store or a lookup of
\* a license text leaves every license-info entry as it was, and a store
\* evicts exactly when its own keyspace has reached maxSize.
C27_KeyspacesIndependent ==
    [][/\ lastOp'.op \in {"cacheLicenseInfo", "getCachedLicenseInfo"}
            => licenseTextCache' = licenseTextCache
       /\ lastOp'.op \in {"cacheLicenseText", "getCachedLicenseText"}
            => licenseInfoCache' = licenseInfoCache
       /\ ownCountEvicts("cacheLicenseInfo", licenseInfoCache)
       /\ ownCountEvicts("cacheLicenseText", licenseTextCache)]_vars

\* a license text was stored without eviction while the license-info keyspace
\* was at or above maxSize
C27_TextStoredBesideFullInfo ==
    /\ lastOp.op = "cacheLicenseText"
    /\ lastOp.did
    /\ lastOp.n = 0
    /\ Len(licenseTextCache) < config.maxSize
    /\ Len(licenseInfoCache) >= config.maxSize

\* a store on the key k that found `old` and left `new` replaced an entry
replaceStep(op, old) ==
    /\ lastOp'.op = op
    /\ lastOp'.did
    /\ Has(old, lastOp'.key)

\* C28 as stated: replacing the entry of a present key leaves every other
\* entry of the keyspace unchanged and the entry count as it was, in every
\* state, one holding exactly maxSize entries included.
C28_ReplaceKeepsTheOthers ==
    [][/\ replaceStep("cacheLicenseInfo", licenseInfoCache)
            => /\ Len(licenseInfoCache') = Len(licenseInfoCache)
               /\ MapDelete(licenseInfoCache', lastOp'.key)
                    = MapDelete(licenseInfoCache, lastOp'.key)
       /\ replaceStep("cacheLicenseText", licenseTextCache)
            => /\ Len(licenseTextCache') = Len(licenseTextCache)
               /\ MapDelete(licenseTextCache', lastOp'.key)
                    = MapDelete(licenseTextCache, lastOp'.key)]_vars

replaceBelowMaxSize(op, old, new) ==
    replaceStep(op, old)
        => LET E == Min(config.maxSize \div 10, Len(old))
           IN IF Len(old) < config.maxSize
              THEN /\ Len(new) = Len(old)
                   /\ MapDelete(new, lastOp'.key) = MapDelete(old, lastOp'.key)
              ELSE /\ Len(new) \in {Len(old) - E, Len(old) - E + 1}
                   /\ \A i \in 1..Len(new) :
                         new[i].key # lastOp'.key
                            => \E j \in 1..Len(old) : old[j] = new[i]

\* C28 amended: replacing the entry of a present key leaves every other entry
\* unchanged and the entry count as it was while the keyspace holds fewer than
\* maxSize entries; in a keyspace holding maxSize entries or more the store
\* first evicts the min(floor(maxSize / 10), count) oldest entries, so the
\* count drops by that number, or by one less when the replaced entry was
\* among them, and the entries that remain are unchanged.
C28_ReplaceBelowMaxSize ==
    [][/\ replaceBelowMaxSize("cacheLicenseInfo", licenseInfoCache, licenseInfoCache')
       /\ replaceBelowMaxSize("cacheLicenseText", licenseTextCache, licenseTextCache')]_vars

\* an entry was replaced in place, in a keyspace that held maxSize entries,
\* and the store evicted another entry
C28_ReplacedAtMaxSize ==
    /\ lastOp.op = "cacheLicenseInfo"
    /\ lastOp.did
    /\ lastOp.n >= 1
    /\ \E i \in 1..(Len(licenseInfoCache) - 1) : licenseInfoCache[i].key = lastOp.key

====
